---- MODULE Spec2Model ----
(***************************************************************************)
(* A model of anyblok_media: the Media base model (source storage          *)
(* strategy, create, source accessors, filename slugifier), the workflow   *)
(* states, and the Image / Audio / Video polymorphic models (process,      *)
(* rendition plan, crop).                                                  *)
(*                                                                         *)
(* Conventions.  Python's None is the string "None" for byte values and    *)
(* class attributes; a filename is a sequence of one-character strings and *)
(* the empty sequence stands for "no filename" (None and "" are both       *)
(* falsy, which is all the code tests); a path and a URL are records, with *)
(* NoPath / NoUrl for None.                                                *)
(***************************************************************************)
EXTENDS Integers, Sequences, FiniteSets, TLC

VARIABLES
    records,    \* the Media table: a sequence of inserted records
    files,      \* the file system: path -> content of the file at that path
    dirs,       \* the directories that exist
    config,     \* class attributes and Configuration entries
    today,      \* the day datetime.now() reports
    lastCall,   \* the last call made on the models and how it ended
    pure,       \* the last application of a pure function (slugify, crop, plan)
    tags,       \* the Tag table: a sequence of rows (name, media_type)
    mediaTags,  \* the MediaTag join table: pairs (entity, index of the Tag row)
    sourceMeta, \* per entity, the genres last saved into its source file
    sync,       \* per entity, where its before-update synchronization stands
    overlap,    \* whether two synchronizations have run at the same time
    callers     \* concurrent callers that create a directory and write a file

syncVars == <<tags, mediaTags, sourceMeta, sync, overlap>>

vars == <<records, files, dirs, config, today, lastCall, pure, syncVars, callers>>

(***************************************************************************)
(* Bounds of the model                                                     *)
(***************************************************************************)
MaxRecords == 1
MaxDay == 2
MaxLen == 4
MaxDim == 4

None == "None"

\* Python truthiness of a bytes / str value: None and the empty value are falsy
Truthy(v) == v # None /\ v # ""

(***************************************************************************)
(* Filenames and Media.slugify_filename                                    *)
(***************************************************************************)
\* One representative per class of character the slugifier tells apart:
\* a lower-case letter, an upper-case letter, a digit, the hyphen, a
\* disallowed character, the dot.
Chars == {"a", "A", "1", "-", "!", "."}

Filenames == UNION {[1..n -> Chars] : n \in 0..MaxLen}

\* str.lower() on one character
LowerChar(c) == IF c = "A" THEN "a" ELSE c

Lower(s) == [i \in 1..Len(s) |-> LowerChar(s[i])]

\* python-slugify, DISALLOWED_CHARS_PATTERN [^-a-zA-Z0-9]+ : what is kept
Allowed(c) == c \in {"a", "A", "1", "-"}

RECURSIVE CollapseDashes(_)
\* python-slugify, DUPLICATE_DASH_PATTERN -{2,} -> "-"
CollapseDashes(s) ==
    IF Len(s) < 2 THEN s
    ELSE IF s[1] = "-" /\ s[2] = "-" THEN CollapseDashes(Tail(s))
    ELSE <<s[1]>> \o CollapseDashes(Tail(s))

RECURSIVE StripLeft(_)
StripLeft(s) == IF s # <<>> /\ s[1] = "-" THEN StripLeft(Tail(s)) ELSE s

RECURSIVE StripRight(_)
StripRight(s) ==
    IF s # <<>> /\ s[Len(s)] = "-" THEN StripRight(SubSeq(s, 1, Len(s) - 1)) ELSE s

\* python-slugify's slugify(text) with its default arguments, on the model's
\* alphabet: lower-case, every disallowed character becomes a dash, runs of
\* dashes collapse, leading and trailing dashes are stripped.
slugify(text) ==
    LET lowered == Lower(text)
        dashed == [i \in 1..Len(lowered) |->
                      IF Allowed(lowered[i]) THEN lowered[i] ELSE "-"]
    IN StripRight(StripLeft(CollapseDashes(dashed)))

\* the index of the last dot of s, 0 when s has none
LastDot(s) ==
    LET dots == {i \in 1..Len(s) : s[i] = "."}
    IN IF dots = {} THEN 0 ELSE CHOOSE i \in dots : \A j \in dots : j <= i

RECURSIVE RemoveDots(_)
RemoveDots(s) ==
    IF s = <<>> THEN <<>>
    ELSE IF s[1] = "." THEN RemoveDots(Tail(s))
    ELSE <<s[1]>> \o RemoveDots(Tail(s))

\* filename.lower().split(".") then pop(): the part after the last dot
\* (the whole name when there is no dot)
Extension(filename) ==
    LET s == Lower(filename)
    IN SubSeq(s, LastDot(s) + 1, Len(s))

\* "".join(filename_split) after the pop: what precedes the last dot, its
\* other dots removed
NamePart(filename) ==
    LET s == Lower(filename)
    IN RemoveDots(SubSeq(s, 1, LastDot(s) - 1))

\* the number of digits of random.randint(1e5, 1e6 - 1)
SuffixDigits == 6

\* values random.randint(1e5, 1e6 - 1) can return, as digit strings: the two
\* ends of the range and one value between
Suffixes ==
    { <<"1", "0", "0", "0", "0", "0">>,
      <<"9", "9", "9", "9", "9", "9">>,
      <<"1", "1", "1", "1", "1", "1">> }

\* slugify_filename with the extension taken from the filename as given, not
\* from its lower-cased form
slugify_filename_RawExtension(filename, random_suffix, rnd) ==
    LET extension == SubSeq(filename, LastDot(filename) + 1, Len(filename))
    IN IF random_suffix
       THEN slugify(NamePart(filename)) \o <<"-">> \o rnd \o <<".">> \o extension
       ELSE slugify(NamePart(filename)) \o <<".">> \o extension

\* Media.slugify_filename(filename, random_suffix); rnd is the value
\* random.randint returns when it is called
slugify_filename(filename, random_suffix, rnd) ==
    IF random_suffix
    THEN slugify(NamePart(filename)) \o <<"-">> \o rnd \o <<".">> \o Extension(filename)
    ELSE slugify(NamePart(filename)) \o <<".">> \o Extension(filename)

(***************************************************************************)
(* Paths, URLs, class attributes                                           *)
(***************************************************************************)
\* A path: root directory, sub-directory kind, day directory, base name
\* (with its extension for a source file) and a separate extension (renditions)
Path(root, kind, day, base, ext) ==
    [root |-> root, kind |-> kind, day |-> day, base |-> base, ext |-> ext]

NoPath == Path("", "", 0, <<>>, "")

\* os.path.split(path)[0]
DirOf(p) == [root |-> p.root, kind |-> p.kind, day |-> p.day]

Url(host, base) == [host |-> host, base |-> base]

NoUrl == Url("", <<>>)

\* a local file that exists before any media is created, and a remote file
InName == <<"A", ".", "a">>
InPath == Path("/in", "upload", 0, InName, "")
InUrl == Url("http://x", InName)

\* Media.SOURCE_STORAGE_STRATEGIES
SOURCE_STORAGE_STRATEGIES == {"database", "disk"}

\* values SOURCE_STORAGE_STRATEGY is given: unset (None), empty, the two
\* supported ones and an unsupported one
StrategyValues == {None, "", "database", "disk", "s3"}

\* SOURCE_DISK_STORAGE_PATTERN: not defined on the class, empty, or the
\* pattern "{source_path_prefix}/<type>/{year}/{month}/{day}/{filename}.{extension}"
StdPattern == "{prefix}/{year}/{month}/{day}/{filename}.{extension}"
PatternValues == {"undefined", "", StdPattern}

\* Configuration.get("source_path_prefix")
PrefixValues == {"", "/srv"}

\* Configuration.get("media_path_prefix")
MediaPathPrefix == "/media"

\* MEDIA_TYPE of Model.Media and of its polymorphic classes
MEDIA_TYPE(cls) == IF cls = "media" THEN None ELSE cls

Classes == {"media", "image", "audio", "video"}

(***************************************************************************)
(* Media.get_source_storage_strategy                                       *)
(***************************************************************************)
\* get_source_storage_strategy without the test against
\* SOURCE_STORAGE_STRATEGIES
get_source_storage_strategy_Unchecked(strategy) ==
    IF ~Truthy(strategy) THEN None ELSE strategy

get_source_storage_strategy(strategy) ==
    IF ~Truthy(strategy) THEN None
    ELSE IF strategy \notin SOURCE_STORAGE_STRATEGIES THEN None
    ELSE strategy

(***************************************************************************)
(* Media.get_workflow_definition                                           *)
(***************************************************************************)
States == {"draft", "published", "archived"}

\* the "allowed_to" list of each state ("archived" has none)
allowed_to(state) ==
    CASE state = "draft" -> {"published", "archived"}
      [] state = "published" -> {"draft", "archived"}
      [] OTHER -> {}

\* the state marked "default"
DefaultState == "draft"

(***************************************************************************)
(* Records                                                                 *)
(***************************************************************************)
\* properties: None, or an ordered mapping name -> descriptor kept as a
\* sequence of descriptors (dict() is the empty one)
Props(items) == [isNone |-> FALSE, items |-> items]
NoneProps == [isNone |-> TRUE, items |-> <<>>]

\* cls.insert(**data): the columns not given keep their defaults
NewRecord(cls, data) ==
    [media_type |-> MEDIA_TYPE(cls),
     file |-> data.file,
     file_path |-> data.file_path,
     file_url |-> data.file_url,
     filename |-> data.filename,
     state |-> DefaultState,
     properties |-> Props(<<>>)]

(***************************************************************************)
(* Media.create                                                            *)
(***************************************************************************)
\* the keyword arguments of create that the code reads
Kw(file, file_url, file_path, filename) ==
    [file |-> file, file_url |-> file_url, file_path |-> file_path,
     filename |-> filename]

NoKw == Kw(None, NoUrl, NoPath, <<>>)

\* len(list(filter(None, [_file, _file_url, _file_path])))
SourceFieldCount(kw) ==
    (IF Truthy(kw.file) THEN 1 ELSE 0)
    + (IF kw.file_url # NoUrl THEN 1 ELSE 0)
    + (IF kw.file_path # NoPath THEN 1 ELSE 0)

\* the checks of create with "more than one source" off by one
ValidationError_TwoAllowed(cls, kw) ==
    IF ~Truthy(MEDIA_TYPE(cls)) THEN "no_media_type"
    ELSE IF SourceFieldCount(kw) = 0 THEN "no_source"
    ELSE IF SourceFieldCount(kw) > 2 THEN "too_many_sources"
    ELSE "ok"

\* the three checks create makes before it touches anything
ValidationError(cls, kw) ==
    IF ~Truthy(MEDIA_TYPE(cls)) THEN "no_media_type"
    ELSE IF SourceFieldCount(kw) = 0 THEN "no_source"
    ELSE IF SourceFieldCount(kw) > 1 THEN "too_many_sources"
    ELSE "ok"

\* what create has done when it returns or raises
Outcome(status, data, fs, ds) ==
    [status |-> status, data |-> data, files |-> fs, dirs |-> ds]

\* the file system with content written at path p
WriteFile(fs, p, content) ==
    [q \in DOMAIN fs \cup {p} |-> IF q = p THEN content ELSE fs[q]]

\* "if _file_url: ... elif _file_path: ...": download or read the bytes into
\* data["file"], and take the filename from the URL or path when none is given.
\* env.fetch is what requests.get answers ("raise", or the content);
\* env.read is whether the local read succeeds.
LoadSource(kw, env) ==
    IF kw.file_url # NoUrl
    THEN IF env.fetch = "raise" THEN [status |-> "fetch_error", data |-> kw]
         ELSE [status |-> "ok",
               data |-> [kw EXCEPT !.file = env.fetch,
                                   !.filename = IF kw.filename = <<>>
                                                THEN kw.file_url.base
                                                ELSE kw.filename]]
    ELSE IF kw.file_path # NoPath
    THEN IF ~env.read \/ kw.file_path \notin DOMAIN files
         THEN [status |-> "read_error", data |-> kw]
         ELSE [status |-> "ok",
               data |-> [kw EXCEPT !.file = files[kw.file_path],
                                   !.filename = IF kw.filename = <<>>
                                                THEN kw.file_path.base
                                                ELSE kw.filename]]
    ELSE [status |-> "ok", data |-> kw]

\* source_path_pattern.format(source_path_prefix=..., year=..., month=...,
\* day=..., filename=..., extension=...)
SourcePath(prefix, day, filename) == Path(prefix, "source", day, filename, "")

\* data.get("file") in place of data.pop("file"): the bytes stay in data
PopFile_Kept(data) == data

\* data.pop("file"): the bytes leave data, so that insert stores no "file"
PopFile(data) == [data EXCEPT !.file = None]

\* the "disk" branch: data has a truthy "file".  env.mkdir, env.open and
\* env.write are whether os.makedirs, open(source_path, "wb") and destf.write
\* succeed.
PlaceOnDisk(data, env) ==
    LET popped == PopFile(data)
    IN IF config.pattern = "undefined" THEN Outcome("attribute_error", popped, files, dirs)
       ELSE IF config.pattern = "" THEN Outcome("no_pattern", popped, files, dirs)
       ELSE IF config.prefix = "" THEN Outcome("no_prefix", popped, files, dirs)
       ELSE IF data.filename = <<>> THEN Outcome("no_filename", popped, files, dirs)
       ELSE
         LET filename == slugify_filename(data.filename, FALSE, <<>>)
             source_path == SourcePath(config.prefix, today, filename)
             destination_dir == DirOf(source_path)
             \* os.makedirs when the directory does not exist; OSError is logged
             ds == IF destination_dir \notin dirs /\ env.mkdir
                   THEN dirs \cup {destination_dir} ELSE dirs
             named == [popped EXCEPT !.filename = filename]
         IN IF destination_dir \notin ds \/ ~env.open
            THEN Outcome("open_error", named, files, ds)
            ELSE IF env.write
            THEN Outcome("ok", [named EXCEPT !.file_path = source_path],
                         WriteFile(files, source_path, data.file), ds)
            \* OSError while writing is logged; the file was opened and truncated
            ELSE Outcome("ok", named, WriteFile(files, source_path, ""), ds)

\* "if data.get('file'):" with its two branches, "database" and "disk"
PlaceSource(data, env) ==
    LET storage_strategy == get_source_storage_strategy(config.strategy)
    IN IF ~Truthy(data.file) THEN Outcome("ok", data, files, dirs)
       ELSE IF storage_strategy = "database" THEN Outcome("ok", data, files, dirs)
       ELSE IF storage_strategy = "disk" THEN PlaceOnDisk(data, env)
       ELSE Outcome("ok", data, files, dirs)

\* Media.create(**kwargs) on class cls: status "ok" means data is inserted
CreateOutcome(cls, kw, env) ==
    IF ValidationError(cls, kw) # "ok"
    THEN Outcome(ValidationError(cls, kw), kw, files, dirs)
    ELSE LET loaded == LoadSource(kw, env)
         IN IF loaded.status # "ok"
            THEN Outcome(loaded.status, kw, files, dirs)
            ELSE PlaceSource(loaded.data, env)

\* what lastCall records of a call
Call(op, cls, kw, status, rec, from, to) ==
    [op |-> op, cls |-> cls, kw |-> kw, status |-> status, rec |-> rec,
     from |-> from, to |-> to]

NoCall == Call("none", "media", NoKw, "ok", 0, "", "")

FileInputs == {None, "b1"}
UrlInputs == {NoUrl, InUrl}
PathInputs == {NoPath, InPath}
FilenameInputs == {<<>>, <<"a", ".", "a">>}
KwInputs ==
    {Kw(f, u, p, n) : f \in FileInputs, u \in UrlInputs, p \in PathInputs,
                      n \in FilenameInputs}

Env(fetch, read, mkdir, open, write) ==
    [fetch |-> fetch, read |-> read, mkdir |-> mkdir, open |-> open,
     write |-> write]

\* what the network and the file system do during one call: everything
\* succeeds, or one operation fails (a failed makedirs makes the open fail
\* too; a failed download or read ends the call before the others run)
EnvInputs ==
    { Env("b3", TRUE, TRUE, TRUE, TRUE),
      Env("raise", TRUE, TRUE, TRUE, TRUE),
      Env("b3", FALSE, TRUE, TRUE, TRUE),
      Env("b3", TRUE, FALSE, TRUE, TRUE),
      Env("b3", TRUE, TRUE, FALSE, TRUE),
      Env("b3", TRUE, TRUE, TRUE, FALSE) }

\* Media.create(**kwargs) on class cls, while the table holds fewer than max
\* records
CreateWithin(max, cls, kw, env) ==
    /\ Len(records) < max
    /\ LET o == CreateOutcome(cls, kw, env)
       IN /\ records' = IF o.status = "ok"
                        THEN Append(records, NewRecord(cls, o.data))
                        ELSE records
          /\ files' = o.files
          /\ dirs' = o.dirs
          /\ lastCall' = Call("create", cls, kw, o.status,
                              IF o.status = "ok" THEN Len(records) + 1 ELSE 0,
                              "", "")
    /\ UNCHANGED <<config, today, pure, syncVars, callers>>

Create(cls, kw, env) == CreateWithin(MaxRecords, cls, kw, env)

\* the calendar day changes
Tick ==
    /\ today < MaxDay
    /\ today' = today + 1
    /\ UNCHANGED <<records, files, dirs, config, lastCall, pure, syncVars, callers>>

(***************************************************************************)
(* Media.get_source_file_field, Media.get_source_bytes                     *)
(***************************************************************************)
\* get_source_file_field testing file_path before file_url
get_source_file_field_PathFirst(rec) ==
    IF Truthy(rec.file) THEN "file"
    ELSE IF rec.file_path # NoPath THEN "file_path"
    ELSE IF rec.file_url # NoUrl THEN "file_url"
    ELSE None

get_source_file_field(rec) ==
    IF Truthy(rec.file) THEN "file"
    ELSE IF rec.file_url # NoUrl THEN "file_url"
    ELSE IF rec.file_path # NoPath THEN "file_path"
    ELSE None

\* get_source_bytes on rec with the file system fs: "stream" for an
\* io.BytesIO, None when no source field is set, "raise" when the read of the
\* path or of the URL raises (io: whether the network and the disk answer)
get_source_bytes(rec, fs, io) ==
    LET field == get_source_file_field(rec)
    IN IF field = None THEN None
       ELSE IF field = "file" THEN "stream"
       ELSE IF field = "file_path"
       THEN IF io /\ rec.file_path \in DOMAIN fs THEN "stream" ELSE "raise"
       ELSE IF io THEN "stream" ELSE "raise"

\* where get_source_bytes takes the bytes from: the record itself
\* (io.BytesIO(self.file)), the local disk (open(self.file_path)) or the
\* network (urlopen(self.file_url))
source_read_from(rec) ==
    LET field == get_source_file_field(rec)
    IN IF field = None THEN None
       ELSE IF field = "file" THEN "memory"
       ELSE IF field = "file_path" THEN "disk"
       ELSE "network"

\* the exception create raises for each status that is not "ok"
Raised(status) ==
    CASE status \in {"no_pattern", "no_prefix"} -> "ConfigurationException"
      [] status \in {"no_media_type", "no_source", "too_many_sources", "no_filename"} -> "Exception"
      [] status = "attribute_error" -> "AttributeError"
      [] status = "fetch_error" -> "RequestException"
      [] status \in {"read_error", "open_error"} -> "OSError"
      [] OTHER -> None

(***************************************************************************)
(* Image: the crop transform                                               *)
(***************************************************************************)
Size(width, height) == [width |-> width, height |-> height]

\* int(x / 2): Python's true division, truncated toward zero
IntHalf(x) == IF x >= 0 THEN x \div 2 ELSE -((-x) \div 2)

\* PIL's Image.crop(box): the result is (right - left) by (lower - upper)
PilCrop(left, upper, right, lower) == Size(right - left, lower - upper)

\* Image.__crop(img, size): img and size are positive
crop(img, size) ==
    LET width == size.width
        height == size.height
    IN IF img.width >= img.height
       THEN LET generated == Size((height * img.width) \div img.height, height)
            IN PilCrop(IntHalf(generated.width - width), 0,
                       IntHalf(generated.width + width), height)
       ELSE LET generated == Size(width, (width * img.width) \div img.height)
            IN PilCrop(0, IntHalf(generated.height - height),
                       width, IntHalf(generated.height + height))

(***************************************************************************)
(* Image.format_transformation_properties                                  *)
(***************************************************************************)
\* one entry of PROCESS_PARAMS (a dict name -> item, in insertion order)
Param(name, width, height, extension, file_format, mode) ==
    [name |-> name, width |-> width, height |-> height,
     extension |-> extension, file_format |-> file_format,
     transformation_mode |-> mode]

\* url_pattern.format(name=..., filename=..., width=..., height=...,
\* extension=..., year=..., month=..., day=...)
RenditionUrl(name, day, base, ext, width, height) ==
    [name |-> name, day |-> day, base |-> base, ext |-> ext,
     width |-> width, height |-> height]

\* the descriptor built for one entry; day is (year, month, day) of "now"
Descriptor(item, filename, day) ==
    [name |-> item.name,
     width |-> item.width,
     height |-> item.height,
     path |-> Path(MediaPathPrefix, item.name, day, filename, item.extension),
     url |-> RenditionUrl(item.name, day, filename, item.extension,
                          item.width, item.height),
     file_format |-> item.file_format,
     transformation_mode |-> item.transformation_mode,
     extension |-> item.extension]

\* datetime.now() read again for each entry, inside the loop
PlanDay_PerEntry(clock, i) == clock[i]

\* the day used for the i-th entry: datetime.now() is read once, before the
\* loop (clock is the sequence of readings the clock would give)
PlanDay(clock, i) == clock[1]

\* Image.format_transformation_properties(self) for an entity named filename,
\* with the class attributes params, dest_pattern and url_pattern
format_transformation_properties(filename, params, dest_pattern, url_pattern, clock) ==
    IF params = <<>> THEN NoneProps
    ELSE IF dest_pattern = "" THEN NoneProps
    ELSE IF url_pattern = "" THEN NoneProps
    ELSE Props([i \in 1..Len(params) |->
                   Descriptor(params[i], filename, PlanDay(clock, i))])

(***************************************************************************)
(* Image.generate, Image.process, Audio.process, Video.process             *)
(***************************************************************************)
TransformationModes == {"resize", "preserve", "crop"}

\* what can go wrong while the renditions are generated: nothing (at = 0), or
\* the at-th rendition fails to create its directory ("mkdir") or to save its
\* file ("save"); "source" is the source bytes failing to be read
ProcEnv(at, kind) == [at |-> at, kind |-> kind]

RECURSIVE GenerateFrom(_, _, _, _, _, _)
\* the loop "for k, v in self.properties.items(): self.generate(k, v)" from
\* its i-th descriptor on, with the file system fs and directories ds
GenerateFrom(rec, items, i, fs, ds, env) ==
    IF i > Len(items) THEN [status |-> "ok", files |-> fs, dirs |-> ds]
    ELSE
      LET d == items[i]
          source == get_source_bytes(rec, fs, env.kind # "source")
      IN \* PilImage.open(stream) with no stream, or the read itself, raises
         IF source # "stream" THEN [status |-> "source_error", files |-> fs, dirs |-> ds]
         ELSE IF d.transformation_mode \notin TransformationModes
         THEN GenerateFrom(rec, items, i + 1, fs, ds, env)
         ELSE IF DirOf(d.path) \notin ds /\ env.at = i /\ env.kind = "mkdir"
         THEN [status |-> "mkdir_error", files |-> fs, dirs |-> ds]
         ELSE IF env.at = i /\ env.kind = "save"
         THEN [status |-> "save_error", files |-> fs,
               dirs |-> ds \cup {DirOf(d.path)}]
         ELSE GenerateFrom(rec, items, i + 1, WriteFile(fs, d.path, "img"),
                           ds \cup {DirOf(d.path)}, env)

\* Image.process(self): what the entity, the disk and the call look like after
ImageProcess(rec, env) ==
    IF config.dest = "" THEN [status |-> "noop", rec |-> rec, files |-> files, dirs |-> dirs]
    ELSE IF config.params = <<>>
    THEN [status |-> "noop", rec |-> rec, files |-> files, dirs |-> dirs]
    ELSE
      LET plan == format_transformation_properties(
                      rec.filename, config.params, config.dest, config.url,
                      [i \in 1..(Len(config.params) + 1) |-> today])
          assigned == [rec EXCEPT !.properties = plan]
      IN \* None has no items()
         IF plan.isNone
         THEN [status |-> "attribute_error", rec |-> assigned,
               files |-> files, dirs |-> dirs]
         ELSE LET g == GenerateFrom(assigned, plan.items, 1, files, dirs, env)
              IN [status |-> g.status, rec |-> assigned, files |-> g.files,
                  dirs |-> g.dirs]

\* Audio.process(self) and Video.process(self)
PublishProcess(rec) ==
    [status |-> "ok",
     rec |-> IF rec.state # "published" THEN [rec EXCEPT !.state = "published"] ELSE rec,
     files |-> files, dirs |-> dirs]

ProcessOutcome(rec, env) ==
    IF rec.media_type = "image" THEN ImageProcess(rec, env) ELSE PublishProcess(rec)

Process(i, env) ==
    /\ i \in 1..Len(records)
    /\ LET o == ProcessOutcome(records[i], env)
       IN /\ records' = [records EXCEPT ![i] = o.rec]
          /\ files' = o.files
          /\ dirs' = o.dirs
          /\ lastCall' = Call("process", records[i].media_type, NoKw, o.status, i,
                              records[i].state, "")
    /\ UNCHANGED <<config, today, pure, syncVars, callers>>

(***************************************************************************)
(* The workflow: a request to change the state of an entity                *)
(***************************************************************************)
\* a state change asked from outside, checked against "allowed_to"
Transition(i, to) ==
    /\ i \in 1..Len(records)
    /\ IF to \in allowed_to(records[i].state)
       THEN /\ records' = [records EXCEPT ![i].state = to]
            /\ lastCall' = Call("transition", records[i].media_type, NoKw, "ok", i,
                                records[i].state, to)
       ELSE /\ records' = records
            /\ lastCall' = Call("transition", records[i].media_type, NoKw,
                                "invalid_transition", i, records[i].state, to)
    /\ UNCHANGED <<files, dirs, config, today, pure, syncVars, callers>>

(***************************************************************************)
(* Configurations and the specification of the store                       *)
(***************************************************************************)
\* PROCESS_PARAMS as declared on an Image class: unset, two renditions, and
\* two renditions of which one names an unknown transformation_mode
NoParams == <<>>
TwoParams ==
    << Param("thumb", 2, 2, "jpg", "JPEG", "crop"),
       Param("full", 4, 3, "png", "PNG", "preserve") >>
OddParams ==
    << Param("odd", 2, 2, "jpg", "JPEG", "zoom"),
       Param("thumb", 2, 2, "jpg", "JPEG", "crop") >>

StdDest == "{media_path_prefix}/{year}/{month}/{day}/{name}/{filename}.{extension}"
StdUrl == "/{year}/{month}/{day}/{name}/{filename}.{extension}"

Config(strategy, pattern, prefix, params, dest, url) ==
    [strategy |-> strategy, pattern |-> pattern, prefix |-> prefix,
     params |-> params, dest |-> dest, url |-> url]

\* every storage configuration with a configured Image class, and the other
\* Image configurations under the "database" strategy
Configs ==
    {Config(s, StdPattern, "/srv", TwoParams, StdDest, StdUrl) : s \in StrategyValues}
    \cup {Config("disk", pt, px, TwoParams, StdDest, StdUrl) :
             pt \in PatternValues, px \in PrefixValues}
    \cup { Config("database", StdPattern, "/srv", NoParams, StdDest, StdUrl),
           Config("database", StdPattern, "/srv", OddParams, StdDest, StdUrl),
           Config("database", StdPattern, "/srv", TwoParams, "", StdUrl),
           Config("database", StdPattern, "/srv", TwoParams, StdDest, "") }

ProcEnvInputs ==
    {ProcEnv(0, "none"), ProcEnv(0, "source")}
    \cup {ProcEnv(at, kind) : at \in 1..2, kind \in {"mkdir", "save"}}

NoPure == [op |-> "none"]

\* no tag, no association and no synchronization
NoSync ==
    /\ tags = <<>>
    /\ mediaTags = {}
    /\ sourceMeta = <<>>
    /\ sync = <<>>
    /\ overlap = FALSE

Init ==
    /\ records = <<>>
    /\ files = [p \in {InPath} |-> "b2"]
    /\ dirs = {DirOf(InPath)}
    /\ config \in Configs
    /\ today = 1
    /\ lastCall = NoCall
    /\ pure = NoPure
    /\ NoSync
    /\ callers = <<>>

Next ==
    \/ \E cls \in Classes, kw \in KwInputs, env \in EnvInputs : Create(cls, kw, env)
    \/ \E i \in 1..MaxRecords, env \in ProcEnvInputs : Process(i, env)
    \/ \E i \in 1..MaxRecords, to \in States : Transition(i, to)
    \/ Tick

Spec == Init /\ [][Next]_vars

(***************************************************************************)
(* Specifications of the pure functions: the inputs are drawn from bounded *)
(* sets and the function is applied                                        *)
(***************************************************************************)
StoreUnchanged == UNCHANGED <<records, files, dirs, config, today, lastCall, syncVars, callers>>

InitPure ==
    /\ records = <<>>
    /\ files = [p \in {InPath} |-> "b2"]
    /\ dirs = {DirOf(InPath)}
    /\ config = Config("database", StdPattern, "/srv", TwoParams, StdDest, StdUrl)
    /\ today = 1
    /\ lastCall = NoCall
    /\ pure = NoPure
    /\ NoSync
    /\ callers = <<>>

\* slugify_filename(f) twice (the random generator in two states, r1 and r2)
\* and slugify_filename(f, random_suffix=True) once
ApplySlugify(f, r1, r2) ==
    /\ pure = NoPure
    /\ pure' = [op |-> "slugify", filename |-> f,
                plain |-> slugify_filename(f, FALSE, r1),
                again |-> slugify_filename(f, FALSE, r2),
                suffixed |-> slugify_filename(f, TRUE, r1)]
    /\ StoreUnchanged

NextSlugify == \E f \in Filenames, r1 \in Suffixes, r2 \in Suffixes : ApplySlugify(f, r1, r2)

SpecSlugify == InitPure /\ [][NextSlugify]_vars

\* __crop on an image of w by h with the target size W by H
ApplyCrop(w, h, W, H) ==
    /\ pure = NoPure
    /\ pure' = [op |-> "crop", img |-> Size(w, h), size |-> Size(W, H),
                out |-> crop(Size(w, h), Size(W, H))]
    /\ StoreUnchanged

NextCrop == \E w \in 1..MaxDim, h \in 1..MaxDim, W \in 1..MaxDim, H \in 1..MaxDim : ApplyCrop(w, h, W, H)

SpecCrop == InitPure /\ [][NextCrop]_vars

\* the readings a clock gives during one call: the day never goes back
Clocks == {c \in [1..3 -> 1..MaxDay] : \A i \in 1..2 : c[i] <= c[i + 1]}

OneParam == << Param("thumb", 2, 2, "jpg", "JPEG", "crop") >>

ApplyPlan(filename, params, dest, url, clock) ==
    /\ pure = NoPure
    /\ pure' = [op |-> "plan", filename |-> filename, params |-> params,
                dest |-> dest, url |-> url, clock |-> clock,
                out |-> format_transformation_properties(filename, params, dest, url, clock)]
    /\ StoreUnchanged

NextPlan ==
    \E filename \in FilenameInputs \cup {InName},
       params \in {NoParams, OneParam, TwoParams, OddParams},
       dest \in {"", StdDest}, url \in {"", StdUrl}, clock \in Clocks :
        ApplyPlan(filename, params, dest, url, clock)

SpecPlan == InitPure /\ [][NextPlan]_vars

(***************************************************************************)
(* Tags and the metadata synchronization of Audio and Video:               *)
(* before_update_orm_event and write_metadata_to_source                    *)
(***************************************************************************)
\* how many times an entity is synchronized, and how many Tag rows are
\* inserted from outside before the synchronizations
MaxRuns == 2
MaxSeedTags == 1

\* genre names: a clean one, another clean one, and one that strip().lower()
\* changes
Clean == <<"a">>
Other == <<"b">>
Unclean == <<" ", "A">>

\* meta["genres"] of an entity
GenreLists == {<<>>, <<Clean>>, <<Unclean>>, <<Clean, Clean>>, <<Clean, Other>>}

RECURSIVE StripBlankLeft(_)
StripBlankLeft(s) == IF s # <<>> /\ s[1] = " " THEN StripBlankLeft(Tail(s)) ELSE s

RECURSIVE StripBlankRight(_)
StripBlankRight(s) ==
    IF s # <<>> /\ s[Len(s)] = " " THEN StripBlankRight(SubSeq(s, 1, Len(s) - 1)) ELSE s

\* tag_name.strip().lower()
Normalize(t) == Lower(StripBlankRight(StripBlankLeft(t)))

\* a row of the Tag table
Tag(name, media_type) == [name |-> name, media_type |-> media_type]

\* a Tag lookup that never finds a row
TagsNamed_None(name) == {}

\* Tag.query().filter_by(name=tag_name): the rows the query matches
TagsNamed(name) == {k \in 1..Len(tags) : tags[k].name = name}

\* [tag.name for tag in Tag.query().filter_by(media_type="video").all()]
VideoTagList == {tags[k].name : k \in {j \in 1..Len(tags) : tags[j].media_type = "video"}}

\* self.properties["duration"] = f.length
SetDuration(p) ==
    IF \E j \in 1..Len(p.items) : p.items[j].name = "duration" THEN p
    ELSE Props(Append(p.items, [name |-> "duration"]))

\* the associations of entity e in a join table
LinksOf(e, links) == {l \in links : l[1] = e}

\* what is kept of the state a synchronization of an entity ended in
Snap(ts, links, source, status) ==
    [tags |-> ts, links |-> links, source |-> source, status |-> status]

NoSnap == Snap(<<>>, {}, <<>>, "")

\* an entity with meta = {"genres": meta} that is not being synchronized
Idle(meta) ==
    [pc |-> "idle", meta |-> meta, i |-> 1, out |-> <<>>, tag_list |-> {},
     tag |-> 0, status |-> "", runs |-> 0, made |-> 0, cleared |-> FALSE,
     snap |-> NoSnap]

\* the loop over the genres moves to its next token, or ends
Advance(st, loop, end) ==
    IF st.i < Len(st.meta)
    THEN [st EXCEPT !.i = @ + 1, !.pc = loop]
    ELSE [st EXCEPT !.i = 1, !.pc = end]

\* the synchronization of e returns, or raises, in the state (ts, links, source)
Finish(e, st, status, ts, links, source) ==
    [st EXCEPT !.pc = "idle", !.status = status, !.runs = @ + 1,
               !.snap = IF st.runs = 0
                        THEN Snap(ts, LinksOf(e, links), source[e], status)
                        ELSE @]

\* before_update_orm_event is entered (target.meta is not empty) and
\* write_metadata_to_source starts.  Audio sets the duration and, for a
\* non-empty genres list, clears self.tags: flushed is whether the DELETE
\* reaches the join table before the inserts that follow.  Video reads the
\* names of the video tags.
SyncStart(e, flushed) ==
    /\ e \in DOMAIN sync
    /\ sync[e].pc = "idle"
    /\ sync[e].runs < MaxRuns
    /\ overlap' = (overlap \/ \E o \in DOMAIN sync \ {e} : sync[o].pc # "idle")
    /\ LET st == [sync[e] EXCEPT !.i = 1, !.out = <<>>, !.tag = 0,
                                 !.status = "running", !.made = 0,
                                 !.cleared = FALSE, !.tag_list = {}]
       IN IF records[e].media_type = "audio"
          THEN /\ records' = [records EXCEPT ![e].properties = SetDuration(@)]
               /\ IF Len(st.meta) > 0
                  THEN /\ mediaTags' = IF flushed THEN mediaTags \ LinksOf(e, mediaTags)
                                       ELSE mediaTags
                       /\ sync' = [sync EXCEPT ![e] =
                                     [st EXCEPT !.pc = "w_lookup",
                                                !.cleared = flushed /\ LinksOf(e, mediaTags) # {}]]
                  ELSE /\ mediaTags' = mediaTags
                       /\ sync' = [sync EXCEPT ![e] = [st EXCEPT !.pc = "w_save"]]
          ELSE /\ records' = records
               /\ mediaTags' = mediaTags
               /\ sync' = [sync EXCEPT ![e] =
                             [st EXCEPT !.tag_list = VideoTagList,
                                        !.pc = IF Len(st.meta) > 0 THEN "v_token"
                                               ELSE "v_save"]]
    /\ UNCHANGED <<files, dirs, config, today, lastCall, pure, callers, tags, sourceMeta>>

\* Audio.write_metadata_to_source, the lookup of one genre: first() of the
\* rows of that name (any of them, the query has no order)
AudioLookup(e) ==
    /\ e \in DOMAIN sync
    /\ sync[e].pc = "w_lookup"
    /\ LET st == sync[e]
           name == st.meta[st.i]
       IN IF TagsNamed(name) = {}
          THEN sync' = [sync EXCEPT ![e].pc = "w_insert"]
          ELSE \E k \in TagsNamed(name) :
                  sync' = [sync EXCEPT ![e] =
                             Advance([st EXCEPT !.out = Append(@, tags[k].name)],
                                     "w_lookup", "w_save")]
    /\ UNCHANGED <<records, files, dirs, config, today, lastCall, pure, callers, tags,
                   mediaTags, sourceMeta, overlap>>

\* Audio.write_metadata_to_source, Tag.insert for a genre that was not found
AudioInsert(e) ==
    /\ e \in DOMAIN sync
    /\ sync[e].pc = "w_insert"
    /\ LET st == sync[e]
           name == Normalize(st.meta[st.i])
       IN /\ tags' = Append(tags, Tag(name, "audio"))
          /\ sync' = [sync EXCEPT ![e] =
                        Advance([st EXCEPT !.out = Append(@, name), !.made = @ + 1],
                                "w_lookup", "w_save")]
    /\ UNCHANGED <<records, files, dirs, config, today, lastCall, pure, callers,
                   mediaTags, sourceMeta, overlap>>

\* Video.write_metadata_to_source, one genre: a name that is not in tag_list
\* is cleaned and, unless empty, inserted
VideoToken(e) ==
    /\ e \in DOMAIN sync
    /\ sync[e].pc = "v_token"
    /\ LET st == sync[e]
           raw == st.meta[st.i]
           tag == IF raw \notin st.tag_list THEN Normalize(raw) ELSE raw
           inserted == raw \notin st.tag_list /\ tag # <<>>
       IN /\ tags' = IF inserted THEN Append(tags, Tag(tag, "video")) ELSE tags
          /\ sync' = [sync EXCEPT ![e] =
                        Advance([st EXCEPT !.out = Append(@, tag),
                                           !.made = IF inserted THEN @ + 1 ELSE @],
                                "v_token", "v_save")]
    /\ UNCHANGED <<records, files, dirs, config, today, lastCall, pure, callers,
                   mediaTags, sourceMeta, overlap>>

\* setattr(f, "genres", v) and f.save(): saved is whether the write succeeds.
\* Video is done then; Audio goes on to associate the tags.
Save(e, saved) ==
    /\ e \in DOMAIN sync
    /\ sync[e].pc \in {"w_save", "v_save"}
    /\ LET st == sync[e]
           source == [sourceMeta EXCEPT ![e] = st.out]
       IN IF ~saved
          THEN /\ sourceMeta' = sourceMeta
               /\ sync' = [sync EXCEPT ![e] =
                             Finish(e, st, "save_error", tags, mediaTags, sourceMeta)]
          ELSE /\ sourceMeta' = source
               /\ sync' = [sync EXCEPT ![e] =
                             IF st.pc = "w_save" /\ Len(st.meta) > 0
                             THEN [st EXCEPT !.pc = "a_lookup", !.i = 1]
                             ELSE Finish(e, st, "ok", tags, mediaTags, source)]
    /\ UNCHANGED <<records, files, dirs, config, today, lastCall, pure, callers, tags,
                   mediaTags, overlap>>

\* Audio.before_update_orm_event, the lookup of one genre
AssocLookup(e) ==
    /\ e \in DOMAIN sync
    /\ sync[e].pc = "a_lookup"
    /\ LET st == sync[e]
           name == st.meta[st.i]
       IN IF TagsNamed(name) = {}
          THEN sync' = [sync EXCEPT ![e].pc = "a_insert"]
          ELSE \E k \in TagsNamed(name) :
                  sync' = [sync EXCEPT ![e] = [st EXCEPT !.tag = k, !.pc = "a_link"]]
    /\ UNCHANGED <<records, files, dirs, config, today, lastCall, pure, callers, tags,
                   mediaTags, sourceMeta, overlap>>

\* Audio.before_update_orm_event, Tag.insert for a genre that was not found
AssocInsert(e) ==
    /\ e \in DOMAIN sync
    /\ sync[e].pc = "a_insert"
    /\ LET st == sync[e]
       IN /\ tags' = Append(tags, Tag(Normalize(st.meta[st.i]), "audio"))
          /\ sync' = [sync EXCEPT ![e] =
                        [st EXCEPT !.tag = Len(tags) + 1, !.made = @ + 1,
                                   !.pc = "a_link"]]
    /\ UNCHANGED <<records, files, dirs, config, today, lastCall, pure, callers,
                   mediaTags, sourceMeta, overlap>>

\* Audio.before_update_orm_event, MediaTag.insert: (media_uuid, tag_uuid) is
\* the primary key of the join table, a second row of the same pair is refused
Link(e) ==
    /\ e \in DOMAIN sync
    /\ sync[e].pc = "a_link"
    /\ LET st == sync[e]
           links == mediaTags \cup {<<e, st.tag>>}
       IN IF <<e, st.tag>> \in mediaTags
          THEN /\ mediaTags' = mediaTags
               /\ sync' = [sync EXCEPT ![e] =
                             Finish(e, st, "integrity_error", tags, mediaTags, sourceMeta)]
          ELSE /\ mediaTags' = links
               /\ sync' = [sync EXCEPT ![e] =
                             IF st.i < Len(st.meta)
                             THEN [st EXCEPT !.i = @ + 1, !.pc = "a_lookup"]
                             ELSE Finish(e, st, "ok", tags, links, sourceMeta)]
    /\ UNCHANGED <<records, files, dirs, config, today, lastCall, pure, callers, tags,
                   sourceMeta, overlap>>

\* Tag.insert(name=..., media_type=...) from outside, before any
\* synchronization
TagInsert(name, media_type) ==
    /\ Len(tags) < MaxSeedTags
    /\ \A e \in DOMAIN sync : sync[e].pc = "idle" /\ sync[e].runs = 0
    /\ tags' = Append(tags, Tag(name, media_type))
    /\ UNCHANGED <<records, files, dirs, config, today, lastCall, pure, callers,
                   mediaTags, sourceMeta, sync, overlap>>

\* two entities created from a local file, each with its genres
InitSync ==
    /\ \E c1 \in {"audio", "video"}, c2 \in {"audio", "video"} :
          records = << NewRecord(c1, Kw(None, NoUrl, InPath, InName)),
                       NewRecord(c2, Kw(None, NoUrl, InPath, InName)) >>
    /\ files = [p \in {InPath} |-> "b2"]
    /\ dirs = {DirOf(InPath)}
    /\ config = Config("disk", StdPattern, "/srv", NoParams, "", "")
    /\ today = 1
    /\ lastCall = NoCall
    /\ pure = NoPure
    /\ tags = <<>>
    /\ mediaTags = {}
    /\ sourceMeta = << <<>>, <<>> >>
    /\ \E m1 \in GenreLists, m2 \in GenreLists : sync = <<Idle(m1), Idle(m2)>>
    /\ overlap = FALSE
    /\ callers = <<>>

NextSync ==
    \/ \E e \in 1..2, flushed \in BOOLEAN : SyncStart(e, flushed)
    \/ \E e \in 1..2 : AudioLookup(e)
    \/ \E e \in 1..2 : AudioInsert(e)
    \/ \E e \in 1..2 : VideoToken(e)
    \/ \E e \in 1..2, saved \in BOOLEAN : Save(e, saved)
    \/ \E e \in 1..2 : AssocLookup(e)
    \/ \E e \in 1..2 : AssocInsert(e)
    \/ \E e \in 1..2 : Link(e)
    \/ \E mt \in {"image", "audio", "video"} : TagInsert(Clean, mt)

SpecSync == InitSync /\ [][NextSync]_vars

(***************************************************************************)
(* The genres read from the source file: grab_metadata_from_source of      *)
(* Audio and Video                                                         *)
(***************************************************************************)
\* the longest raw genre string and the longest raw list of genre strings
MaxGenreLen == 3
MaxGenreItems == 2

GenreChars == {"a", "A", " ", ","}

\* a raw genre string
GenreStrings == UNION {[1..n -> GenreChars] : n \in 0..MaxGenreLen}

\* getattr(f, "genres"): one string or a list of strings
StrValue(s) == [kind |-> "str", s |-> s, items |-> <<>>]
ListValue(items) == [kind |-> "list", s |-> <<>>, items |-> items]
GenreValues ==
    {StrValue(s) : s \in GenreStrings}
    \cup {ListValue(items) : items \in UNION {[1..n -> GenreStrings] : n \in 0..MaxGenreItems}}

\* s.split(","): the pieces between the commas, the empty ones included
RECURSIVE SplitFrom(_, _)
SplitFrom(s, piece) ==
    IF s = <<>> THEN <<piece>>
    ELSE IF s[1] = "," THEN <<piece>> \o SplitFrom(Tail(s), <<>>)
    ELSE SplitFrom(Tail(s), Append(piece, s[1]))

Split(s) == SplitFrom(s, <<>>)

\* filter(None, pieces): the pieces that are not the empty string
NonEmpty(t) == t # <<>>
FilterNone(pieces) == SelectSeq(pieces, NonEmpty)

\* [t.strip().lower() for t in filter(None, v.split(","))]
CleanGenres(s) ==
    LET kept == FilterNone(Split(s))
    IN [i \in 1..Len(kept) |-> Normalize(kept[i])]

\* the list branch: the cleaned pieces of every item, in order
RECURSIVE CleanGenresOfList(_)
CleanGenresOfList(items) ==
    IF items = <<>> THEN <<>>
    ELSE CleanGenres(Head(items)) \o CleanGenresOfList(Tail(items))

\* if v: a string or a list that is not empty
TruthyValue(v) == IF v.kind = "str" THEN v.s # <<>> ELSE v.items # <<>>

\* meta.get("genres") after grab_metadata_from_source: the key is absent when
\* the raw value is empty
grab_metadata_from_source(v) ==
    IF ~TruthyValue(v) THEN [present |-> FALSE, genres |-> <<>>]
    ELSE [present |-> TRUE,
          genres |-> IF v.kind = "str" THEN CleanGenres(v.s)
                     ELSE CleanGenresOfList(v.items)]

\* entity.grab_metadata_from_source() of an Audio or a Video
ApplyGrab(cls, v) ==
    /\ pure = NoPure
    /\ pure' = [op |-> "genres", cls |-> cls, value |-> v,
                out |-> grab_metadata_from_source(v)]
    /\ StoreUnchanged

NextGrab == \E cls \in {"audio", "video"}, v \in GenreValues : ApplyGrab(cls, v)

SpecGrab == InitPure /\ [][NextGrab]_vars

(***************************************************************************)
(* Two callers that create the destination directory and write a file at   *)
(* the same time: the "disk" branch of Media.create from its directory     *)
(* check on, and Image.generate from its directory check on                *)
(***************************************************************************)
\* a caller about to test os.path.exists on the directory of path
Caller(kind, path, content) ==
    [kind |-> kind, path |-> path, content |-> content, pc |-> "exists",
     absent |-> FALSE, status |-> "running"]

\* Media.create(file=b"b1", filename=filename) under "disk", source_path
\* computed
CreateCaller(filename) ==
    Caller("create", SourcePath("/srv", 1, slugify_filename(filename, FALSE, <<>>)), "b1")

\* Image.generate(name, params) for the descriptor of one entry of
\* PROCESS_PARAMS of an entity named filename
GenerateCaller(item, filename) ==
    Caller("generate", Descriptor(item, filename, 1).path, "img")

CallerInputs ==
    {CreateCaller(n) : n \in {<<"a", ".", "a">>, <<"1", ".", "a">>}}
    \cup {GenerateCaller(TwoParams[i], InName) : i \in 1..Len(TwoParams)}

\* os.path.exists(destination_dir) / os.path.exists(prefix)
PathExists(c) ==
    /\ callers[c].pc = "exists"
    /\ LET absent == DirOf(callers[c].path) \notin dirs
       IN callers' = [callers EXCEPT ![c].absent = absent,
                                     ![c].pc = IF absent THEN "makedirs" ELSE "write"]
    /\ UNCHANGED <<records, files, dirs, config, today, lastCall, pure, syncVars>>

\* os.makedirs(directory): FileExistsError when the directory has been
\* created since the test.  Media.create catches OSError and goes on,
\* Image.generate lets it propagate.
MakeDirs(c) ==
    /\ callers[c].pc = "makedirs"
    /\ LET d == DirOf(callers[c].path)
       IN IF d \in dirs
          THEN /\ dirs' = dirs
               /\ callers' = IF callers[c].kind = "create"
                             THEN [callers EXCEPT ![c].pc = "write"]
                             ELSE [callers EXCEPT ![c].pc = "done",
                                                  ![c].status = "file_exists_error"]
          ELSE /\ dirs' = dirs \cup {d}
               /\ callers' = [callers EXCEPT ![c].pc = "write"]
    /\ UNCHANGED <<records, files, config, today, lastCall, pure, syncVars>>

\* the file is written: destf.write(stream.read()) and cls.insert(**data),
\* or generated.save(path)
WriteOut(c) ==
    /\ callers[c].pc = "write"
    /\ files' = WriteFile(files, callers[c].path, callers[c].content)
    /\ records' = IF callers[c].kind = "create"
                  THEN Append(records,
                              NewRecord("image",
                                        Kw(None, NoUrl, callers[c].path,
                                           callers[c].path.base)))
                  ELSE records
    /\ callers' = [callers EXCEPT ![c].pc = "done", ![c].status = "ok"]
    /\ UNCHANGED <<dirs, config, today, lastCall, pure, syncVars>>

\* an image entity exists for the renditions; no destination directory does
InitRace ==
    /\ records = << NewRecord("image", Kw(None, NoUrl, InPath, InName)) >>
    /\ files = [p \in {InPath} |-> "b2"]
    /\ dirs = {DirOf(InPath)}
    /\ config = Config("disk", StdPattern, "/srv", TwoParams, StdDest, StdUrl)
    /\ today = 1
    /\ lastCall = NoCall
    /\ pure = NoPure
    /\ NoSync
    /\ \E c1 \in CallerInputs, c2 \in CallerInputs : callers = <<c1, c2>>

NextRace ==
    \/ \E c \in 1..2 : PathExists(c)
    \/ \E c \in 1..2 : MakeDirs(c)
    \/ \E c \in 1..2 : WriteOut(c)

SpecRace == InitRace /\ [][NextRace]_vars

(***************************************************************************)
(* Several entities created under "disk": Media.create called again and    *)
(* again, nothing failing                                                  *)
(***************************************************************************)
\* how many entities are created
MaxStored == 2

\* requests with one source: inline bytes (two contents, names that differ,
\* that differ by case only, or that are the same), a URL, a local path
StoreKwInputs ==
    {Kw(f, NoUrl, NoPath, n) : f \in {"b1", "b4"},
                               n \in {<<"a", ".", "a">>, <<"A", ".", "a">>, <<"1", ".", "a">>}}
    \cup {Kw(None, InUrl, NoPath, <<>>), Kw(None, NoUrl, InPath, <<>>)}

\* the download, the read, os.makedirs, open and write all succeed
AllSucceed == Env("b3", TRUE, TRUE, TRUE, TRUE)

InitStore ==
    /\ records = <<>>
    /\ files = [p \in {InPath} |-> "b2"]
    /\ dirs = {DirOf(InPath)}
    /\ config = Config("disk", StdPattern, "/srv", NoParams, "", "")
    /\ today = 1
    /\ lastCall = NoCall
    /\ pure = NoPure
    /\ NoSync
    /\ callers = <<>>

NextStore ==
    \/ \E cls \in {"image", "audio"}, kw \in StoreKwInputs :
          CreateWithin(MaxStored, cls, kw, AllSucceed)
    \/ Tick

SpecStore == InitStore /\ [][NextStore]_vars

(***************************************************************************)
(* Properties                                                              *)
(***************************************************************************)
\* the number of source fields of a record that are non-empty
PopulatedCount(r) ==
    (IF Truthy(r.file) THEN 1 ELSE 0)
    + (IF r.file_url # NoUrl THEN 1 ELSE 0)
    + (IF r.file_path # NoPath THEN 1 ELSE 0)

\* the last call is a create that returned a record
Created == lastCall.op = "create" /\ lastCall.status = "ok"

C2_CreateOnlyWithOneSource ==
    [][ /\ Len(records') > Len(records) =>
             /\ lastCall'.op = "create"
             /\ Truthy(MEDIA_TYPE(lastCall'.cls))
             /\ SourceFieldCount(lastCall'.kw) = 1
        /\ ( /\ lastCall'.op = "create"
             /\ ~Truthy(MEDIA_TYPE(lastCall'.cls)) \/ SourceFieldCount(lastCall'.kw) # 1 ) =>
             /\ lastCall'.status \in {"no_media_type", "no_source", "too_many_sources"}
             /\ records' = records
             /\ files' = files
             /\ dirs' = dirs ]_vars

\* C2 witness: a create with two source fields on a polymorphic class raised
C2_Witness ==
    /\ lastCall.op = "create"
    /\ lastCall.cls = "image"
    /\ SourceFieldCount(lastCall.kw) = 2
    /\ lastCall.status = "too_many_sources"
    /\ records = <<>>

\* C3 as stated: under "disk" a created record reports "file_path" when made
\* from inline bytes (file empty) or from a local path, "file_url" when made
\* from a URL, and get_source_bytes gives a stream.
C3_DiskSourceFieldFollowsOrigin ==
    (Created /\ config.strategy = "disk") =>
        LET r == records[lastCall.rec]
            kw == lastCall.kw
        IN /\ Truthy(kw.file) =>
                 get_source_file_field(r) = "file_path" /\ ~Truthy(r.file)
           /\ kw.file_path # NoPath => get_source_file_field(r) = "file_path"
           /\ kw.file_url # NoUrl => get_source_file_field(r) = "file_url"
           /\ get_source_bytes(r, files, TRUE) = "stream"

\* C4: get_source_storage_strategy returns SOURCE_STORAGE_STRATEGY when it is
\* "database" or "disk", and None when it is unset or any other value.
C4_StrategyOrNone ==
    /\ config.strategy \in SOURCE_STORAGE_STRATEGIES =>
          get_source_storage_strategy(config.strategy) = config.strategy
    /\ config.strategy \notin SOURCE_STORAGE_STRATEGIES =>
          get_source_storage_strategy(config.strategy) = None

\* C4 witness: create has run on a class whose strategy is not supported
C4_Witness ==
    /\ lastCall.op = "create"
    /\ lastCall.cls = "image"
    /\ lastCall.status = "ok"
    /\ config.strategy = "s3"
    /\ get_source_storage_strategy(config.strategy) = None

\* C5 as stated: with the strategy unset or unsupported, a create with a valid
\* single source fails and inserts no record.
C5_UnknownStrategyRejected ==
    ( /\ lastCall.op = "create"
      /\ config.strategy \notin SOURCE_STORAGE_STRATEGIES
      /\ Truthy(MEDIA_TYPE(lastCall.cls))
      /\ SourceFieldCount(lastCall.kw) = 1 ) =>
        lastCall.status # "ok" /\ lastCall.rec = 0

\* a filename with a non-empty name and a non-empty extension of letters and
\* digits
NonTrivial(f) ==
    /\ LastDot(f) > 1
    /\ LastDot(f) < Len(f)
    /\ \A i \in (LastDot(f) + 1)..Len(f) : f[i] \in {"a", "A", "1"}

\* f is already what slugify_filename returns: one dot, before it lower-case
\* letters, digits and single inner hyphens, after it no upper-case letter
IsSlugForm(f) ==
    LET d == LastDot(f)
    IN /\ d > 0
       /\ \A i \in 1..Len(f) : f[i] = "." => i = d
       /\ \A i \in (d + 1)..Len(f) : f[i] # "A"
       /\ \A i \in 1..(d - 1) : f[i] \in {"a", "1", "-"}
       /\ d > 1 => f[1] # "-" /\ f[d - 1] # "-"
       /\ \A i \in 1..(d - 2) : ~(f[i] = "-" /\ f[i + 1] = "-")

\* C6 as stated: slugify_filename(f) is the same for equal input, the
\* random-suffix result is strictly longer than it and differs from it, and
\* both differ from the raw f, for every non-trivial f.
C6_BothDifferFromRaw ==
    (pure.op = "slugify" /\ NonTrivial(pure.filename)) =>
        /\ pure.plain = pure.again
        /\ Len(pure.suffixed) > Len(pure.plain)
        /\ pure.suffixed # pure.plain
        /\ pure.plain # pure.filename
        /\ pure.suffixed # pure.filename

\* C6 amended: slugify_filename(f) is the same for equal input; the
\* random-suffix result is longer than it by the hyphen and the six digits,
\* differs from it and from the raw f; slugify_filename(f) differs from the raw
\* f except when f is already in slug form, which it returns unchanged.
C6_SuffixedDiffersPlainUnlessSlugForm ==
    pure.op = "slugify" =>
        /\ pure.plain = pure.again
        /\ Len(pure.suffixed) > Len(pure.plain)
        /\ Len(pure.suffixed) = Len(pure.plain) + SuffixDigits + 1
        /\ pure.suffixed # pure.plain
        /\ pure.suffixed # pure.filename
        /\ pure.plain = pure.filename <=> IsSlugForm(pure.filename)

\* C6 witness: a clean filename came back unchanged, its suffixed form longer
C6_Witness ==
    /\ pure.op = "slugify"
    /\ pure.filename = <<"a", "1", ".", "a">>
    /\ pure.plain = pure.filename
    /\ Len(pure.suffixed) > Len(pure.plain)

\* C7 as stated: the state of an entity changes only along an allowed edge,
\* whatever transition requests and process() calls are made; in particular
\* an archived entity stays archived.
C7_OnlyAllowedEdges ==
    [][ \A i \in 1..Len(records) :
           records'[i].state # records[i].state =>
               records'[i].state \in allowed_to(records[i].state) ]_vars

\* C8 as stated: after a successful process() on a draft entity, its
\* properties are the freshly computed rendition plan and its state is
\* "published", for image, audio and video entities.
C8_ProcessPublishesWithPlan ==
    (lastCall.op = "process" /\ lastCall.status = "ok" /\ lastCall.from = "draft") =>
        LET r == records[lastCall.rec]
        IN /\ r.state = "published"
           /\ \E d \in 1..MaxDay :
                 r.properties = Props([i \in 1..Len(config.params) |->
                                          Descriptor(config.params[i], r.filename, d)])

\* C9 as stated: crop returns an image of exactly the target size.
C9_CropExactSize ==
    pure.op = "crop" => pure.out = pure.size

\* the names of a sequence of entries or descriptors
Names(items) == {items[i].name : i \in 1..Len(items)}

C12_NoRecordWithoutItsBytes ==
    \A i \in 1..Len(records) :
        /\ PopulatedCount(records[i]) >= 1
        /\ \/ Truthy(records[i].file)
           \/ /\ records[i].file_path # NoPath
              /\ records[i].file_path \in DOMAIN files
              /\ files[records[i].file_path] # ""

\* the last call is a create with a valid request whose source could be loaded
ValidLoaded ==
    /\ lastCall.op = "create"
    /\ Truthy(MEDIA_TYPE(lastCall.cls))
    /\ SourceFieldCount(lastCall.kw) = 1
    /\ lastCall.status \notin {"fetch_error", "read_error"}

\* C13 as stated: under "disk", create fails with a configuration error when
\* the pattern is empty or unset, when source_path_prefix is empty, or when no
\* filename is available, and then creates no directory, writes no file and
\* inserts no record.
C13_DiskMisconfigurationIsConfigError ==
    [][ ( /\ lastCall' # lastCall
          /\ ValidLoaded'
          /\ config.strategy = "disk"
          /\ \/ config.pattern \in {"undefined", ""}
             \/ config.prefix = ""
             \/ Truthy(lastCall'.kw.file) /\ lastCall'.kw.filename = <<>> ) =>
            /\ Raised(lastCall'.status) = "ConfigurationException"
            /\ records' = records
            /\ files' = files
            /\ dirs' = dirs ]_vars

\* C14 as stated: a create from inline bytes without a filename fails under
\* every storage strategy ("database" and "disk") and inserts no record.
C14_InlineBytesNeedFilename ==
    ( /\ lastCall.op = "create"
      /\ config.strategy \in SOURCE_STORAGE_STRATEGIES
      /\ Truthy(MEDIA_TYPE(lastCall.cls))
      /\ SourceFieldCount(lastCall.kw) = 1
      /\ Truthy(lastCall.kw.file)
      /\ lastCall.kw.filename = <<>> ) =>
        lastCall.status # "ok" /\ records = <<>>

\* C15 as stated: a record with several source fields populated is read in
\* the order file, file_path, file_url; with file_path and file_url both
\* populated it is read from file_path.
C15_PathBeforeUrl ==
    \A i \in 1..Len(records) :
        LET r == records[i]
        IN (~Truthy(r.file) /\ r.file_path # NoPath /\ r.file_url # NoUrl) =>
              /\ get_source_file_field(r) = "file_path"
              /\ source_read_from(r) = "disk"

\* C15 amended: the order is file, then file_url, then file_path; a record
\* with file_path and file_url both populated is read from its URL.
C15_UrlBeforePath ==
    \A i \in 1..Len(records) :
        LET r == records[i]
        IN /\ Truthy(r.file) =>
                 get_source_file_field(r) = "file" /\ source_read_from(r) = "memory"
           /\ (~Truthy(r.file) /\ r.file_url # NoUrl) =>
                 get_source_file_field(r) = "file_url" /\ source_read_from(r) = "network"
           /\ (~Truthy(r.file) /\ r.file_url = NoUrl /\ r.file_path # NoPath) =>
                 get_source_file_field(r) = "file_path" /\ source_read_from(r) = "disk"
           /\ PopulatedCount(r) = 0 => get_source_file_field(r) = None

\* C15 witness: a record holds a file_url and a file_path and no bytes
C15_Witness ==
    /\ Len(records) = 1
    /\ ~Truthy(records[1].file)
    /\ records[1].file_url # NoUrl
    /\ records[1].file_path # NoPath
    /\ get_source_file_field(records[1]) = "file_url"

\* the renditions of the plan of record r that generate can produce and whose
\* file is not on the disk
Unwritten(r) ==
    {i \in 1..Len(r.properties.items) :
        /\ r.properties.items[i].transformation_mode \in TransformationModes
        /\ r.properties.items[i].path \notin DOMAIN files}

\* the renditions of the plan of record r whose file is on the disk
Written(r) ==
    {i \in 1..Len(r.properties.items) : r.properties.items[i].path \in DOMAIN files}

\* C19 as stated: when a rendition has an unknown transformation_mode or its
\* file cannot be written, the others still are generated (at most the
\* failing one is missing), and process fails as a whole only when no
\* rendition succeeded.
C19_FailureDoesNotAbortBatch ==
    ( /\ lastCall.op = "process"
      /\ lastCall.cls = "image"
      /\ lastCall.status \in {"ok", "save_error"} ) =>
        LET r == records[lastCall.rec]
        IN /\ Cardinality(Unwritten(r)) <= (IF lastCall.status = "ok" THEN 0 ELSE 1)
           /\ lastCall.status # "ok" => Written(r) = {}

\* C20 as stated: after Image.process returns, every entry of properties has
\* its file written at its path, with the declared width, height and format.
C20_PropertiesListWrittenRenditions ==
    ( /\ lastCall.op = "process"
      /\ lastCall.cls = "image"
      /\ lastCall.status = "ok" ) =>
        LET r == records[lastCall.rec]
        IN /\ Len(r.properties.items) = Len(config.params)
           /\ \A i \in 1..Len(r.properties.items) :
                 /\ r.properties.items[i].path \in DOMAIN files
                 /\ r.properties.items[i].width = config.params[i].width
                 /\ r.properties.items[i].height = config.params[i].height
                 /\ r.properties.items[i].file_format = config.params[i].file_format

\* entity e, whose genres are trimmed and lower-case, has been synchronized
\* alone, and its source file could be written each time
RanAlone(e) ==
    /\ sync[e].pc = "idle"
    /\ sync[e].runs >= 1
    /\ Len(sync[e].meta) > 0
    /\ \A i \in 1..Len(sync[e].meta) : Normalize(sync[e].meta[i]) = sync[e].meta[i]
    /\ sync[e].status # "save_error"
    /\ sync[e].snap.status # "save_error"
    /\ \A o \in DOMAIN sync \ {e} : sync[o].pc = "idle" /\ sync[o].runs = 0

\* C11 as stated: the synchronization run twice in a row on one entity with
\* the same non-empty meta succeeds both times and leaves the same tag
\* associations, the same Tag rows and the same saved metadata as one run.
C11_SyncTwiceSameAsOnce ==
    \A e \in DOMAIN sync :
        RanAlone(e) =>
            /\ sync[e].snap.status = "ok"
            /\ sync[e].status = "ok"
            /\ sync[e].runs = 2 =>
                  /\ tags = sync[e].snap.tags
                  /\ LinksOf(e, mediaTags) = sync[e].snap.links
                  /\ sourceMeta[e] = sync[e].snap.source

\* C16 as stated: every Tag associated with an entity by the lookup-or-create
\* step has the entity's media_type, or "media".
C16_AssociatedTagsOfEntityType ==
    \A l \in mediaTags :
        tags[l[2]].media_type \in {records[l[1]].media_type, "media"}

\* C17 as stated: in no reachable state is the source file saved with genres
\* whose tag associations are missing, and no synchronization that failed to
\* write the source has cleared associations or created tags.
C17_TagsSyncedBeforeSave ==
    \A e \in DOMAIN sync :
        /\ \A j \in 1..Len(sourceMeta[e]) :
              \E l \in LinksOf(e, mediaTags) : tags[l[2]].name = sourceMeta[e][j]
        /\ sync[e].status = "save_error" => sync[e].made = 0 /\ ~sync[e].cleared

\* two rows of the Tag table have the same name and media_type
HasDuplicate ==
    \E j \in 1..Len(tags), k \in 1..Len(tags) : j < k /\ tags[j] = tags[k]

\* both entities are of the same type and have the same single genre, new to
\* the Tag table: every row of the table was inserted by their synchronizations
SameSingleGenre ==
    /\ Len(records) = 2
    /\ records[1].media_type = records[2].media_type
    /\ Len(sync[1].meta) = 1
    /\ sync[1].meta = sync[2].meta
    /\ sync[1].runs + sync[2].runs <= 2
    /\ Len(tags) = sync[1].made + sync[2].made

\* the genres of every entity are trimmed, lower-case and not repeated
NormalizedDistinct ==
    \A e \in DOMAIN sync :
        /\ \A i \in 1..Len(sync[e].meta) : Normalize(sync[e].meta[i]) = sync[e].meta[i]
        /\ \A i \in 1..Len(sync[e].meta), j \in 1..Len(sync[e].meta) :
              i # j => sync[e].meta[i] # sync[e].meta[j]

InsertsDuplicate ==
    /\ sync' # sync
    /\ Len(tags') > Len(tags)
    /\ \E k \in 1..Len(tags) : tags[k] = tags'[Len(tags')]

RECURSIVE PiecesOfList(_)
PiecesOfList(items) ==
    IF items = <<>> THEN <<>> ELSE Split(Head(items)) \o PiecesOfList(Tail(items))

PiecesOf(v) == IF v.kind = "str" THEN Split(v.s) ELSE PiecesOfList(v.items)

\* the pieces trimmed and lower-cased, those left empty dropped
TrimmedTokens(v) ==
    LET pieces == PiecesOf(v)
        cleaned == [i \in 1..Len(pieces) |-> Normalize(pieces[i])]
    IN SelectSeq(cleaned, NonEmpty)

\* C21 as stated: the genres extracted from a raw value are exactly its
\* comma-separated tokens in order, each trimmed and lower-cased, duplicates
\* kept, and none of them empty, not even one that is empty only once trimmed.
C21_GenresAreTrimmedNonEmptyTokens ==
    (pure.op = "genres" /\ pure.out.present) =>
        /\ pure.out.genres = TrimmedTokens(pure.value)
        /\ \A i \in 1..Len(pure.out.genres) : pure.out.genres[i] # <<>>

\* both callers found the same directory absent
BothFoundAbsent ==
    /\ Len(callers) = 2
    /\ DirOf(callers[1].path) = DirOf(callers[2].path)
    /\ \A c \in 1..2 : callers[c].pc # "exists" /\ callers[c].absent

\* C22 as stated: when two callers both find the same directory absent and
\* both try to create it, neither fails because the directory already
\* exists, and each one that has finished has written its file.
C22_DirectoryRaceTolerated ==
    BothFoundAbsent =>
        \A c \in 1..2 :
            /\ callers[c].status # "file_exists_error"
            /\ callers[c].pc = "done" => callers[c].path \in DOMAIN files

\* a create has just succeeded under "disk"
CreatedOnDisk ==
    /\ config.strategy = "disk"
    /\ lastCall'.op = "create"
    /\ lastCall'.status = "ok"
    /\ Len(records') = Len(records) + 1

\* C23 as stated: under "disk", after a successful create no two entities
\* share a file_path, and the create has not overwritten the file an earlier
\* entity's file_path points to, even with the same filename on the same day.
C23_NoNameCollision ==
    [][CreatedOnDisk =>
         /\ \A i \in 1..Len(records'), j \in 1..Len(records') :
               (i < j /\ records'[i].file_path # NoPath) =>
                   records'[i].file_path # records'[j].file_path
         /\ \A i \in 1..Len(records) :
               LET p == records[i].file_path
               IN (p # NoPath /\ p \in DOMAIN files) => files'[p] = files[p]]_vars

====
